---- MODULE Spec2Model ----
(***************************************************************************)
(* fabric.js numeric utilities: the easing catalogue (util/anim_ease.ts)   *)
(* and the object transform helpers (util/misc/objectTransforms.ts).       *)
(*                                                                         *)
(* Numbers.  A JavaScript number is modelled as an exact rational <<n, d>> *)
(* in lowest terms with d >= 0; d = 0 carries the IEEE special values      *)
(* (<<1,0>> = Infinity, <<-1,0>> = -Infinity, <<0,0>> = NaN).  Rounding is *)
(* not modelled: every result is the real-number value of the expression.  *)
(* Angles handed to sin/cos are measured in quarter turns (the unit is     *)
(* pi/2), so halfPI = 1, Math.PI = 2 and twoMathPi = 4; the transcendental *)
(* functions are defined on the arguments where their value is rational,   *)
(* and every action is guarded to stay on those arguments.                 *)
(***************************************************************************)
EXTENDS Integers, Sequences, FiniteSets, TLC

VARIABLES call, obj, snapshots, last, sized

vars == <<call, obj, snapshots, last, sized>>

(***************************************************************************)
(* Bounds of the model.                                                    *)
(***************************************************************************)
MaxStart == 1
MaxChange == 2
MaxDuration == 2
MaxScale == 2
MaxCalls == 2
MaxSnapshots == 1

(***************************************************************************)
(* Number arithmetic.                                                      *)
(***************************************************************************)
Sign(n) == IF n > 0 THEN 1 ELSE IF n < 0 THEN -1 ELSE 0

AbsInt(n) == IF n < 0 THEN -n ELSE n

RECURSIVE Gcd(_, _)
Gcd(a, b) == IF b = 0 THEN a ELSE Gcd(b, a % b)

\* n / d with the common factor g taken out and the sign s of d moved up
Reduce(n, d, g, s) == <<(s * n) \div g, (s * d) \div g>>

Q(n, d) ==
  IF d = 0 THEN <<Sign(n), 0>> ELSE Reduce(n, d, Gcd(AbsInt(n), AbsInt(d)), Sign(d))

Zero == <<0, 1>>
One == <<1, 1>>
Two == <<2, 1>>
NaN == <<0, 0>>

IsNaN(x) == x = NaN
IsFinite(x) == x[2] # 0

Neg(x) == <<-x[1], x[2]>>

\* the sum of two finite numbers, g the common factor of their denominators
AddFinite(x, y, g) ==
  Q(x[1] * (y[2] \div g) + y[1] * (x[2] \div g), (x[2] \div g) * y[2])

Add(x, y) ==
  IF IsNaN(x) \/ IsNaN(y) THEN NaN
  ELSE IF ~IsFinite(x) /\ ~IsFinite(y) THEN (IF x = y THEN x ELSE NaN)
  ELSE IF ~IsFinite(x) THEN x
  ELSE IF ~IsFinite(y) THEN y
  ELSE AddFinite(x, y, Gcd(x[2], y[2]))

Sub(x, y) == Add(x, Neg(y))

\* the product of two finite numbers, the cross factors g1 and g2 taken out
MulFinite(x, y, g1, g2) ==
  Q((x[1] \div g1) * (y[1] \div g2), (x[2] \div g2) * (y[2] \div g1))

Mul(x, y) ==
  IF ~IsFinite(x) \/ ~IsFinite(y) THEN <<Sign(x[1] * y[1]), 0>>
  ELSE MulFinite(x, y, Gcd(AbsInt(x[1]), y[2]), Gcd(AbsInt(y[1]), x[2]))

Inv(x) == Q(x[2], x[1])

Div(x, y) == Mul(x, Inv(y))

\* x < y; every comparison with NaN is false
Lt(x, y) ==
  IF IsNaN(x) \/ IsNaN(y) THEN FALSE
  ELSE IF ~IsFinite(x) THEN x[1] < 0 /\ y # x
  ELSE IF ~IsFinite(y) THEN y[1] > 0
  ELSE x[1] * y[2] < y[1] * x[2]

\* x === y; NaN is equal to nothing
Eq(x, y) == x = y /\ ~IsNaN(x)

\* Math.abs
Abs(x) == <<AbsInt(x[1]), x[2]>>

\* x ** n for a literal exponent n
RECURSIVE Pow(_, _)
Pow(x, n) == IF n = 0 THEN One ELSE Mul(x, Pow(x, n - 1))

IsInt(x) == x[2] = 1

RECURSIVE IntPow2(_)
IntPow2(n) == IF n = 0 THEN 1 ELSE 2 * IntPow2(n - 1)

\* 2 ** x, rational when x is an integer
Pow2(x) == IF x[1] >= 0 THEN <<IntPow2(x[1]), 1>> ELSE <<1, IntPow2(-x[1])>>

RECURSIVE ISqrtIn(_, _, _)
ISqrtStep(n, lo, hi, mid) ==
  IF mid * mid <= n THEN ISqrtIn(n, mid, hi) ELSE ISqrtIn(n, lo, mid - 1)

ISqrtIn(n, lo, hi) == IF lo >= hi THEN lo ELSE ISqrtStep(n, lo, hi, (lo + hi + 1) \div 2)

ISqrt(n) == ISqrtIn(n, 0, IF n < 40000 THEN n ELSE 40000)

IsSquare(n) == n >= 0 /\ ISqrt(n) * ISqrt(n) = n

\* Math.sqrt is rational exactly on quotients of perfect squares
SqrtDom(x) == IsFinite(x) /\ IsSquare(x[1]) /\ IsSquare(x[2])

Sqrt(x) == <<ISqrt(x[1]), ISqrt(x[2])>>

\* the angle q (in quarter turns) as a multiple of 30 degrees, modulo a turn
Twelfth(q) == (q[1] * (3 \div q[2])) % 12

\* sin and cos are rational on the multiples of 30 degrees other than
\* 60, 120, 240, 300 (sin) and 30, 150, 210, 330 (cos)
SinDom(q) == q[2] \in {1, 3} /\ Twelfth(q) \notin {2, 4, 8, 10}

SinTwelfth(r) ==
  CASE r \in {0, 6} -> Zero
    [] r \in {1, 5} -> <<1, 2>>
    [] r = 3 -> One
    [] r \in {7, 11} -> <<-1, 2>>
    [] r = 9 -> <<-1, 1>>

Sin(q) == SinTwelfth(Twelfth(q))

CosDom(q) == SinDom(Add(q, One))

Cos(q) == Sin(Add(q, One))

\* Math.asin, in quarter turns, where it is rational
AsinDom(x) == x \in {<<-1, 1>>, <<-1, 2>>, Zero, <<1, 2>>, One}

Asin(x) ==
  CASE x = <<-1, 1>> -> <<-1, 1>>
    [] x = <<-1, 2>> -> <<-1, 3>>
    [] x = Zero -> Zero
    [] x = <<1, 2>> -> <<1, 3>>
    [] x = One -> One

\* constants imported from ../constants, in quarter turns
halfPI == One
PI == Two
twoMathPi == <<4, 1>>

(***************************************************************************)
(* util/anim_ease.ts                                                       *)
(***************************************************************************)
\* normalize taking the magnitude of the change for the amplitude
normalizeClamped(a, c, p, s) ==
  IF Lt(a, Abs(c)) THEN [a |-> Abs(c), c |-> c, p |-> p, s |-> Div(p, <<4, 1>>)]
  ELSE IF Eq(c, Zero) /\ Eq(a, Zero)
       THEN [a |-> a, c |-> c, p |-> p, s |-> Mul(Div(p, twoMathPi), Asin(One))]
       ELSE [a |-> a, c |-> c, p |-> p, s |-> Mul(Div(p, twoMathPi), Asin(Div(c, a)))]

normalize(a, c, p, s) ==
  IF Lt(a, Abs(c)) THEN [a |-> c, c |-> c, p |-> p, s |-> Div(p, <<4, 1>>)]
  ELSE IF Eq(c, Zero) /\ Eq(a, Zero)
       THEN [a |-> a, c |-> c, p |-> p, s |-> Mul(Div(p, twoMathPi), Asin(One))]
       ELSE [a |-> a, c |-> c, p |-> p, s |-> Mul(Div(p, twoMathPi), Asin(Div(c, a)))]

\* the arguments on which normalize stays rational
normalizeDom(a, c) == Lt(a, Abs(c)) \/ (Eq(c, Zero) /\ Eq(a, Zero)) \/ AsinDom(Div(c, a))

\* exponent and angle of elastic(a, s, p, t, d), after its t -= 1
elasticExponent(t) == Mul(<<10, 1>>, Sub(t, One))
elasticAngle(s, p, t, d) == Div(Mul(Sub(Mul(t, d), s), twoMathPi), p)

elastic(a, s, p, t, d) ==
  LET t1 == Sub(t, One)
  IN  Mul(Mul(a, Pow2(elasticExponent(t))), Sin(elasticAngle(s, p, t1, d)))

easeOutCubic(t, b, c, d) ==
  LET t1 == Div(t, Sub(d, One))
  IN  Add(Mul(c, Add(Mul(t1, Pow(t1, 2)), One)), b)

easeInOutCubicFirst(t, b, c) == Add(Mul(Div(c, Two), Pow(t, 3)), b)

easeInOutCubicSecond(t, b, c) ==
  LET t2 == Sub(t, Two)
  IN  Add(Mul(Div(c, Two), Add(Mul(t2, Pow(t2, 2)), Two)), b)

easeInOutCubic(t, b, c, d) ==
  LET t1 == Div(t, Div(d, Two))
  IN  IF Lt(t1, One) THEN easeInOutCubicFirst(t1, b, c) ELSE easeInOutCubicSecond(t1, b, c)

easeInQuart(t, b, c, d) ==
  LET t1 == Div(t, d)
  IN  Add(Mul(Mul(c, t1), Pow(t1, 3)), b)

easeOutQuart(t, b, c, d) ==
  LET t1 == Sub(Div(t, d), One)
  IN  Add(Mul(Neg(c), Sub(Mul(t1, Pow(t1, 3)), One)), b)

easeInOutQuartFirst(t, b, c) == Add(Mul(Div(c, Two), Pow(t, 4)), b)

easeInOutQuartSecond(t, b, c) ==
  LET t2 == Sub(t, Two)
  IN  Add(Mul(Div(Neg(c), Two), Sub(Mul(t2, Pow(t2, 3)), Two)), b)

easeInOutQuart(t, b, c, d) ==
  LET t1 == Div(t, Div(d, Two))
  IN  IF Lt(t1, One) THEN easeInOutQuartFirst(t1, b, c) ELSE easeInOutQuartSecond(t1, b, c)

easeInQuint(t, b, c, d) ==
  LET t1 == Div(t, d)
  IN  Add(Mul(Mul(c, t1), Pow(t1, 4)), b)

easeOutQuint(t, b, c, d) ==
  LET t1 == Div(t, Sub(d, One))
  IN  Add(Mul(c, Add(Mul(t1, Pow(t1, 4)), One)), b)

easeInOutQuintFirst(t, b, c) == Add(Mul(Div(c, Two), Pow(t, 5)), b)

easeInOutQuintSecond(t, b, c) ==
  LET t2 == Sub(t, Two)
  IN  Add(Mul(Div(c, Two), Add(Mul(t2, Pow(t2, 4)), Two)), b)

easeInOutQuint(t, b, c, d) ==
  LET t1 == Div(t, Div(d, Two))
  IN  IF Lt(t1, One) THEN easeInOutQuintFirst(t1, b, c) ELSE easeInOutQuintSecond(t1, b, c)

easeInSineAngle(t, d) == Mul(Div(t, d), halfPI)

easeInSine(t, b, c, d) == Add(Add(Mul(Neg(c), Cos(easeInSineAngle(t, d))), c), b)

easeOutSine(t, b, c, d) == Add(Mul(c, Sin(easeInSineAngle(t, d))), b)

easeInOutSineAngle(t, d) == Div(Mul(PI, t), d)

easeInOutSine(t, b, c, d) ==
  Add(Mul(Div(Neg(c), Two), Sub(Cos(easeInOutSineAngle(t, d)), One)), b)

easeInExpoExponent(t, d) == Mul(<<10, 1>>, Sub(Div(t, d), One))

easeInExpo(t, b, c, d) ==
  IF Eq(t, Zero) THEN b ELSE Add(Mul(c, Pow2(easeInExpoExponent(t, d))), b)

easeOutExpoExponent(t, d) == Div(Mul(<<-10, 1>>, t), d)

easeOutExpo(t, b, c, d) ==
  IF Eq(t, d) THEN Add(b, c)
  ELSE Add(Mul(c, Neg(Add(Pow2(easeOutExpoExponent(t, d)), One))), b)

easeInOutExpoFirst(t, b, c) ==
  Add(Mul(Div(c, Two), Pow2(Mul(<<10, 1>>, Sub(t, One)))), b)

easeInOutExpoSecond(t, b, c) ==
  LET t2 == Sub(t, One)
  IN  Add(Mul(Div(c, Two), Neg(Add(Pow2(Mul(<<-10, 1>>, t2)), Two))), b)

easeInOutExpo(t, b, c, d) ==
  IF Eq(t, Zero) THEN b
  ELSE IF Eq(t, d) THEN Add(b, c)
  ELSE LET t1 == Div(t, Div(d, Two))
       IN  IF Lt(t1, One) THEN easeInOutExpoFirst(t1, b, c)
           ELSE easeInOutExpoSecond(t1, b, c)

easeInCircRadicand(t, d) == LET t1 == Div(t, d) IN Sub(One, Mul(t1, t1))

easeInCirc(t, b, c, d) ==
  Add(Mul(Neg(c), Sub(Sqrt(easeInCircRadicand(t, d)), One)), b)

easeOutCircRadicand(t, d) == LET t1 == Sub(Div(t, d), One) IN Sub(One, Mul(t1, t1))

easeOutCirc(t, b, c, d) == Add(Mul(c, Sqrt(easeOutCircRadicand(t, d))), b)

easeInOutCircRadicand(t) ==
  IF Lt(t, One) THEN Sub(One, Pow(t, 2))
  ELSE LET t2 == Sub(t, Two) IN Sub(One, Mul(t2, t2))

easeInOutCircFirst(t, b, c) ==
  Add(Mul(Div(Neg(c), Two), Sub(Sqrt(Sub(One, Pow(t, 2))), One)), b)

easeInOutCircSecond(t, b, c) ==
  LET t2 == Sub(t, Two)
  IN  Add(Mul(Div(c, Two), Add(Sqrt(Sub(One, Mul(t2, t2))), One)), b)

easeInOutCirc(t, b, c, d) ==
  LET t1 == Div(t, Div(d, Two))
  IN  IF Lt(t1, One) THEN easeInOutCircFirst(t1, b, c) ELSE easeInOutCircSecond(t1, b, c)

\* !p of a number p
Falsy(p) == p = Zero \/ IsNaN(p)

\* the period the elastic curves hand to normalize (let p = 0; if (!p) p = ...)
elasticPeriod(d) == LET p == Zero IN IF Falsy(p) THEN Mul(d, <<3, 10>>) ELSE p

elasticPeriodInOut(d) ==
  LET p == Zero IN IF Falsy(p) THEN Mul(d, Mul(<<3, 10>>, <<3, 2>>)) ELSE p

\* const s = 1.70158 of the elastic curves, and the default s of the back curves
DefaultOvershoot == Q(170158, 100000)

easeInElastic(t, b, c, d) ==
  LET s == DefaultOvershoot
      a == c
  IN  IF Eq(t, Zero) THEN b
      ELSE LET t1 == Div(t, d)
           IN  IF Eq(t1, One) THEN Add(b, c)
               ELSE LET n == normalize(a, c, elasticPeriod(d), s)
                    IN  Add(Neg(elastic(n.a, n.s, n.p, t1, d)), b)

easeOutElasticExponent(t) == Mul(<<-10, 1>>, t)

easeOutElastic(t, b, c, d) ==
  LET s == DefaultOvershoot
      a == c
  IN  IF Eq(t, Zero) THEN b
      ELSE LET t1 == Div(t, d)
           IN  IF Eq(t1, One) THEN Add(b, c)
               ELSE LET n == normalize(a, c, elasticPeriod(d), s)
                    IN  Add(Add(Mul(Mul(n.a, Pow2(easeOutElasticExponent(t1))),
                                    Sin(elasticAngle(n.s, n.p, t1, d))),
                                n.c),
                            b)

easeInOutElasticFirst(t, b, d, n) ==
  Add(Mul(<<-1, 2>>, elastic(n.a, n.s, n.p, t, d)), b)

easeInOutElasticSecond(t, b, d, n) ==
  LET t2 == Sub(t, One)
  IN  Add(Add(Mul(Mul(Mul(n.a, Pow2(Mul(<<-10, 1>>, t2))),
                      Sin(elasticAngle(n.s, n.p, t2, d))),
                  <<1, 2>>),
              n.c),
          b)

easeInOutElastic(t, b, c, d) ==
  LET s == DefaultOvershoot
      a == c
  IN  IF Eq(t, Zero) THEN b
      ELSE LET t1 == Div(t, Div(d, Two))
           IN  IF Eq(t1, Two) THEN Add(b, c)
               ELSE LET n == normalize(a, c, elasticPeriodInOut(d), s)
                    IN  IF Lt(t1, One) THEN easeInOutElasticFirst(t1, b, d, n)
                        ELSE easeInOutElasticSecond(t1, b, d, n)

easeInBack(t, b, c, d, s) ==
  LET t1 == Div(t, d)
  IN  Add(Mul(Mul(Mul(c, t1), t1), Sub(Mul(Add(s, One), t1), s)), b)

easeOutBack(t, b, c, d, s) ==
  LET t1 == Sub(Div(t, d), One)
  IN  Add(Mul(c, Add(Mul(Mul(t1, t1), Add(Mul(Add(s, One), t1), s)), One)), b)

easeInOutBackFirst(t, b, c, s) ==
  LET s1 == Mul(s, Q(1525, 1000))
  IN  Add(Mul(Div(c, Two), Mul(Mul(t, t), Sub(Mul(Add(s1, One), t), s1))), b)

easeInOutBackSecond(t, b, c, s) ==
  LET t2 == Sub(t, Two)
      s1 == Mul(s, Q(1525, 1000))
  IN  Add(Mul(Div(c, Two), Add(Mul(Mul(t2, t2), Add(Mul(Add(s1, One), t2), s1)), Two)), b)

easeInOutBack(t, b, c, d, s) ==
  LET t1 == Div(t, Div(d, Two))
  IN  IF Lt(t1, One) THEN easeInOutBackFirst(t1, b, c, s)
      ELSE easeInOutBackSecond(t1, b, c, s)

easeOutBounce(t, b, c, d) ==
  LET t1 == Div(t, d)
      k == Q(75625, 10000)
      w == Q(275, 100)
  IN  IF Lt(t1, Div(One, w))
      THEN Add(Mul(c, Mul(Mul(k, t1), t1)), b)
      ELSE IF Lt(t1, Div(Two, w))
      THEN LET t2 == Sub(t1, Div(Q(15, 10), w))
           IN  Add(Mul(c, Add(Mul(Mul(k, t2), t2), Q(75, 100))), b)
      ELSE IF Lt(t1, Div(Q(25, 10), w))
      THEN LET t2 == Sub(t1, Div(Q(225, 100), w))
           IN  Add(Mul(c, Add(Mul(Mul(k, t2), t2), Q(9375, 10000))), b)
      ELSE LET t2 == Sub(t1, Div(Q(2625, 1000), w))
           IN  Add(Mul(c, Add(Mul(Mul(k, t2), t2), Q(984375, 1000000))), b)

easeInBounce(t, b, c, d) == Add(Sub(c, easeOutBounce(Sub(d, t), Zero, c, d)), b)

easeInOutBounceFirst(t, b, c, d) ==
  Add(Mul(easeInBounce(Mul(t, Two), Zero, c, d), <<1, 2>>), b)

easeInOutBounceSecond(t, b, c, d) ==
  Add(Add(Mul(easeOutBounce(Sub(Mul(t, Two), d), Zero, c, d), <<1, 2>>), Mul(c, <<1, 2>>)), b)

easeInOutBounce(t, b, c, d) ==
  IF Lt(t, Div(d, Two)) THEN easeInOutBounceFirst(t, b, c, d)
  ELSE easeInOutBounceSecond(t, b, c, d)

\* easeInQuad multiplying by the instant instead of the fraction (t, not t /= d)
easeInQuadStale(t, b, c, d) == Add(Mul(Mul(c, Div(t, d)), t), b)

easeInQuad(t, b, c, d) ==
  LET t1 == Div(t, d)
  IN  Add(Mul(Mul(c, t1), t1), b)

easeOutQuad(t, b, c, d) ==
  LET t1 == Div(t, d)
  IN  Add(Mul(Mul(Neg(c), t1), Sub(t1, Two)), b)

easeInOutQuadFirst(t, b, c) == Add(Mul(Div(c, Two), Pow(t, 2)), b)

easeInOutQuadSecond(t, b, c) ==
  LET t2 == Sub(t, One)
  IN  Add(Mul(Div(Neg(c), Two), Sub(Mul(t2, Sub(t2, Two)), One)), b)

easeInOutQuad(t, b, c, d) ==
  LET t1 == Div(t, Div(d, Two))
  IN  IF Lt(t1, One) THEN easeInOutQuadFirst(t1, b, c) ELSE easeInOutQuadSecond(t1, b, c)

easeInCubic(t, b, c, d) ==
  LET t1 == Div(t, d)
  IN  Add(Mul(Mul(Mul(c, t1), t1), t1), b)

(***************************************************************************)
(* Matrix, point and object primitives that util/misc/objectTransforms.ts  *)
(* imports or calls on the object.  A matrix is <<a, b, c, d, e, f>> and a *)
(* point <<x, y>>.  Angles of the object (angle, skewX, skewY) are in      *)
(* degrees.  A value the code computes once and reads several times is     *)
(* handed on as a parameter.                                               *)
(***************************************************************************)
Point(x, y) == <<x, y>>

iMatrix == <<One, Zero, Zero, One, Zero, Zero>>

degreesToRadians(deg) == Div(deg, <<90, 1>>)

\* Math.tan of an angle in degrees, on the skews of the model
TanDom(deg) == deg \in {<<-45, 1>>, Zero, <<45, 1>>}

TanDeg(deg) ==
  CASE deg = <<-45, 1>> -> <<-1, 1>>
    [] deg = Zero -> Zero
    [] deg = <<45, 1>> -> One

\* Math.atan2(y, x) in degrees, for x > 0 and r = y / x in {-1, 0, 1}
AtanDom(y, x) == Lt(Zero, x) /\ Div(y, x) \in {<<-1, 1>>, Zero, One}

AtanOfRatio(r) ==
  CASE r = <<-1, 1>> -> <<-45, 1>>
    [] r = Zero -> Zero
    [] r = One -> <<45, 1>>

AtanDeg(y, x) == AtanOfRatio(Div(y, x))

\* Math.atan2(y, x) in degrees, for a vector along an axis
Atan2AxisDom(y, x) == IsFinite(x) /\ IsFinite(y) /\ ((x = Zero) # (y = Zero))

Atan2Axis(y, x) ==
  IF y = Zero THEN (IF Lt(Zero, x) THEN Zero ELSE <<180, 1>>)
  ELSE IF Lt(Zero, y) THEN <<90, 1>> ELSE <<-90, 1>>

multiplyTransformMatrices(a, b, is2x2) ==
  <<Add(Mul(a[1], b[1]), Mul(a[3], b[2])),
    Add(Mul(a[2], b[1]), Mul(a[4], b[2])),
    Add(Mul(a[1], b[3]), Mul(a[3], b[4])),
    Add(Mul(a[2], b[3]), Mul(a[4], b[4])),
    IF is2x2 THEN Zero ELSE Add(Add(Mul(a[1], b[5]), Mul(a[3], b[6])), a[5]),
    IF is2x2 THEN Zero ELSE Add(Add(Mul(a[2], b[5]), Mul(a[4], b[6])), a[6])>>

transformPoint(p, t, ignoreOffset) ==
  IF ignoreOffset
  THEN Point(Add(Mul(t[1], p[1]), Mul(t[3], p[2])), Add(Mul(t[2], p[1]), Mul(t[4], p[2])))
  ELSE Point(Add(Add(Mul(t[1], p[1]), Mul(t[3], p[2])), t[5]),
             Add(Add(Mul(t[2], p[1]), Mul(t[4], p[2])), t[6]))

\* r = [a * t[3], -a * t[1], -a * t[2], a * t[0], 0, 0]
invertLinear(t, a) ==
  <<Mul(a, t[4]), Mul(Neg(a), t[2]), Mul(Neg(a), t[3]), Mul(a, t[1]), Zero, Zero>>

\* r[4] = -o.x; r[5] = -o.y
invertOffset(r, o) == <<r[1], r[2], r[3], r[4], Neg(o[1]), Neg(o[2])>>

invertFrom(t, r) == invertOffset(r, transformPoint(Point(t[5], t[6]), r, TRUE))

invertTransform(t) ==
  invertFrom(t, invertLinear(t, Div(One, Sub(Mul(t[1], t[4]), Mul(t[2], t[3])))))

\* the matrices whose decomposition stays rational
qrDecomposeDom(a) ==
  /\ Atan2AxisDom(a[2], a[1])
  /\ AtanDom(Add(Mul(a[1], a[3]), Mul(a[2], a[4])), Add(Pow(a[1], 2), Pow(a[2], 2)))

qrOptions(a, denom, scaleX) ==
  [angle |-> Atan2Axis(a[2], a[1]),
   scaleX |-> scaleX,
   scaleY |-> Div(Sub(Mul(a[1], a[4]), Mul(a[3], a[2])), scaleX),
   skewX |-> AtanDeg(Add(Mul(a[1], a[3]), Mul(a[2], a[4])), denom),
   skewY |-> Zero, translateX |-> a[5], translateY |-> a[6]]

qrFrom(a, denom) == qrOptions(a, denom, Sqrt(denom))

qrDecompose(a) == qrFrom(a, Add(Pow(a[1], 2), Pow(a[2], 2)))

rotateMatrixOf(cos, sin) == <<cos, sin, Neg(sin), cos, Zero, Zero>>

rotateMatrixBy(theta) == rotateMatrixOf(Cos(theta), Sin(theta))

calcRotateMatrix(angle) ==
  IF Falsy(angle) THEN iMatrix ELSE rotateMatrixBy(degreesToRadians(angle))

\* if (options.skewX) scaleMatrix = multiply(scaleMatrix, [1, 0, tan(skewX), 1], true)
dimensionsSkewX(options, scaleMatrix) ==
  IF Falsy(options.skewX) THEN scaleMatrix
  ELSE multiplyTransformMatrices(
         scaleMatrix, <<One, Zero, TanDeg(options.skewX), One, Zero, Zero>>, TRUE)

\* if (options.skewY) scaleMatrix = multiply(scaleMatrix, [1, tan(skewY), 0, 1], true)
dimensionsSkewY(options, scaleMatrix) ==
  IF Falsy(options.skewY) THEN scaleMatrix
  ELSE multiplyTransformMatrices(
         scaleMatrix, <<One, TanDeg(options.skewY), Zero, One, Zero, Zero>>, TRUE)

calcDimensionsMatrix(options) ==
  dimensionsSkewY(
    options,
    dimensionsSkewX(
      options,
      <<IF options.flipX THEN Neg(options.scaleX) ELSE options.scaleX, Zero, Zero,
        IF options.flipY THEN Neg(options.scaleY) ELSE options.scaleY, Zero, Zero>>))

\* if (options.angle) matrix = multiply(matrix, calcRotateMatrix(options))
composeRotation(options, matrix) ==
  IF Falsy(options.angle) THEN matrix
  ELSE multiplyTransformMatrices(matrix, calcRotateMatrix(options.angle), FALSE)

\* if (scaleX !== 1 || ... || flipY) matrix = multiply(matrix, calcDimensionsMatrix(options))
composeDimensions(options, matrix) ==
  IF \/ options.scaleX # One \/ options.scaleY # One
     \/ ~Falsy(options.skewX) \/ ~Falsy(options.skewY)
     \/ options.flipX \/ options.flipY
  THEN multiplyTransformMatrices(matrix, calcDimensionsMatrix(options), FALSE)
  ELSE matrix

composeMatrix(options) ==
  composeDimensions(
    options,
    composeRotation(options,
                    <<One, Zero, Zero, One, options.translateX, options.translateY>>))

\* the least and the greatest of a finite non-empty set of numbers
MinOf(S) == CHOOSE x \in S : \A y \in S : ~Lt(y, x)
MaxOf(S) == CHOOSE x \in S : \A y \in S : ~Lt(x, y)

boundingBox(minX, maxX, minY, maxY) ==
  [left |-> minX, top |-> minY, width |-> Sub(maxX, minX), height |-> Sub(maxY, minY)]

boundingBoxOf(xs, ys) == boundingBox(MinOf(xs), MaxOf(xs), MinOf(ys), MaxOf(ys))

boundingBoxOfPoints(pts) ==
  boundingBoxOf({pts[i][1] : i \in DOMAIN pts}, {pts[i][2] : i \in DOMAIN pts})

makeBoundingBoxFromPoints(points, transform) ==
  boundingBoxOfPoints([i \in DOMAIN points |-> transformPoint(points[i], transform, FALSE)])

(***************************************************************************)
(* util/misc/objectTransforms.ts: sizeAfterTransform and saveObjectTransform*)
(***************************************************************************)
\* the four corners of the box, dimX and dimY being half its sides
cornerPoints(dimX, dimY) ==
  <<Point(Neg(dimX), Neg(dimY)), Point(dimX, Neg(dimY)),
    Point(Neg(dimX), dimY), Point(dimX, dimY)>>

\* new Point(bbox.width, bbox.height)
sizeOfBox(bbox) == Point(bbox.width, bbox.height)

\* sizeAfterTransform taking the sides of the box for its half sides
sizeAfterTransformWhole(width, height, options) ==
  sizeOfBox(makeBoundingBoxFromPoints(cornerPoints(width, height),
                                      calcDimensionsMatrix(options)))

sizeAfterTransform(width, height, options) ==
  sizeOfBox(makeBoundingBoxFromPoints(cornerPoints(Div(width, Two), Div(height, Two)),
                                      calcDimensionsMatrix(options)))

\* saveObjectTransform handing back the target itself for the record
saveObjectTransformSame(target) ==
  [alias |-> TRUE,
   scaleX |-> target.scaleX, scaleY |-> target.scaleY,
   skewX |-> target.skewX, skewY |-> target.skewY,
   angle |-> target.angle, left |-> target.left,
   flipX |-> target.flipX, flipY |-> target.flipY, top |-> target.top]

\* the object literal is a new object, not the target (alias is FALSE): a
\* later write on the target does not reach it
saveObjectTransform(target) ==
  [alias |-> FALSE,
   scaleX |-> target.scaleX, scaleY |-> target.scaleY,
   skewX |-> target.skewX, skewY |-> target.skewY,
   angle |-> target.angle, left |-> target.left,
   flipX |-> target.flipX, flipY |-> target.flipY, top |-> target.top]

(***************************************************************************)
(* The object's own methods.  A running call is a pair [o, w]: the object  *)
(* and the log of the fields written so far, in order.                     *)
(***************************************************************************)
\* target[key] = value
Write(st, key, value) == [o |-> [st.o EXCEPT ![key] = value], w |-> Append(st.w, key)]

originOffset(origin) ==
  CASE origin \in {"left", "top"} -> <<-1, 2>>
    [] origin = "center" -> Zero
    [] origin \in {"right", "bottom"} -> <<1, 2>>

getTransformedDimensions(o) ==
  sizeAfterTransform(o.width, o.height,
                     [scaleX |-> o.scaleX, scaleY |-> o.scaleY, skewX |-> o.skewX,
                      skewY |-> o.skewY, flipX |-> FALSE, flipY |-> FALSE])

translateByOffset(o, point, offsetX, offsetY) ==
  IF offsetX # Zero \/ offsetY # Zero
  THEN Point(Add(point[1], Mul(offsetX, getTransformedDimensions(o)[1])),
             Add(point[2], Mul(offsetY, getTransformedDimensions(o)[2])))
  ELSE point

translateToGivenOrigin(o, point, fromOriginX, fromOriginY, toOriginX, toOriginY) ==
  translateByOffset(o, point,
                    Sub(originOffset(toOriginX), originOffset(fromOriginX)),
                    Sub(originOffset(toOriginY), originOffset(fromOriginY)))

rotateVector(x, y, cos, sin) == Point(Sub(Mul(x, cos), Mul(y, sin)), Add(Mul(x, sin), Mul(y, cos)))

addPoints(p, q) == Point(Add(p[1], q[1]), Add(p[2], q[2]))

rotatePoint(point, origin, radians) ==
  addPoints(rotateVector(Sub(point[1], origin[1]), Sub(point[2], origin[2]),
                         Cos(radians), Sin(radians)),
            origin)

\* if (this.angle) return rotatePoint(p, origin, degreesToRadians(this.angle))
rotateByAngle(o, p, origin) ==
  IF Falsy(o.angle) THEN p ELSE rotatePoint(p, origin, degreesToRadians(o.angle))

translateToCenterPoint(o, point, originX, originY) ==
  rotateByAngle(o, translateToGivenOrigin(o, point, originX, originY, "center", "center"),
                point)

translateToOriginPoint(o, center, originX, originY) ==
  rotateByAngle(o, translateToGivenOrigin(o, center, "center", "center", originX, originY),
                center)

getRelativeCenterPoint(o) ==
  translateToCenterPoint(o, Point(o.left, o.top), o.originX, o.originY)

ownMatrixAt(o, center) ==
  composeMatrix([angle |-> o.angle, translateX |-> center[1], translateY |-> center[2],
                 scaleX |-> o.scaleX, scaleY |-> o.scaleY, skewX |-> o.skewX,
                 skewY |-> o.skewY, flipX |-> o.flipX, flipY |-> o.flipY])

calcOwnMatrix(o) == ownMatrixAt(o, getRelativeCenterPoint(o))

\* this.set('left', position.x); this.set('top', position.y)
setPosition(st, position) == Write(Write(st, "left", position[1]), "top", position[2])

\* object.setPositionByOrigin(pos, originX, originY)
setPositionByOrigin(st, pos, originX, originY) ==
  setPosition(st,
              translateToOriginPoint(st.o, translateToCenterPoint(st.o, pos, originX, originY),
                                     st.o.originX, st.o.originY))

\* object.set({scaleX, scaleY})
setScale(st, scaleX, scaleY) == Write(Write(st, "scaleX", scaleX), "scaleY", scaleY)

\* object.rotate(angle)
rotate(st, angle) == Write(st, "angle", angle)

\* the order in which a decomposition lists its keys
optionKeys ==
  <<"angle", "scaleX", "scaleY", "skewX", "skewY", "flipX", "flipY",
    "translateX", "translateY">>

\* const { translateX, translateY, scaleX, scaleY, ...otherOptions } = options:
\* the keys of otherOptions, in order
otherOptionKeys(options) ==
  LET Other(k) == k \in DOMAIN options \ {"translateX", "translateY", "scaleX", "scaleY"}
  IN  SelectSeq(optionKeys, Other)

\* Object.assign(object, source), for the keys of source in order
RECURSIVE ObjectAssign(_, _, _)
ObjectAssign(st, source, keys) ==
  IF keys = <<>> THEN st
  ELSE ObjectAssign(Write(st, Head(keys), source[Head(keys)]), source, Tail(keys))

(***************************************************************************)
(* util/misc/objectTransforms.ts: the mutators                             *)
(***************************************************************************)
\* applyTransformToObject leaving the flip flags as they are
applyOptionsKeepingFlips(st, options) ==
  setPositionByOrigin(
    setScale(ObjectAssign(st, options, otherOptionKeys(options)),
             options.scaleX, options.scaleY),
    Point(options.translateX, options.translateY), "center", "center")

\* applyTransformToObject repositioning before it sets the scale
applyOptionsPositionFirst(st, options) ==
  setScale(
    setPositionByOrigin(
      ObjectAssign(Write(Write(st, "flipX", FALSE), "flipY", FALSE),
                   options, otherOptionKeys(options)),
      Point(options.translateX, options.translateY), "center", "center"),
    options.scaleX, options.scaleY)

\* the body of applyTransformToObject once the transform is decomposed
applyOptions(st, options) ==
  setPositionByOrigin(
    setScale(ObjectAssign(Write(Write(st, "flipX", FALSE), "flipY", FALSE),
                          options, otherOptionKeys(options)),
             options.scaleX, options.scaleY),
    Point(options.translateX, options.translateY), "center", "center")

applyTransformToObject(st, transform) == applyOptions(st, qrDecompose(transform))

removeTransformFromObject(st, transform) ==
  applyTransformToObject(
    st, multiplyTransformMatrices(invertTransform(transform), calcOwnMatrix(st.o), FALSE))

\* addTransformToObject leaving out the object's own matrix
addTransformToObjectAlone(st, transform) == applyTransformToObject(st, transform)

addTransformToObject(st, transform) ==
  applyTransformToObject(st, multiplyTransformMatrices(transform, calcOwnMatrix(st.o), FALSE))

\* resetObjectTransform resetting the translation as well
resetObjectTransformAll(st) ==
  Write(Write(rotate(Write(Write(Write(Write(Write(Write(st, "scaleX", One), "scaleY", One),
                                             "skewX", Zero), "skewY", Zero),
                                 "flipX", FALSE), "flipY", FALSE),
                     Zero),
              "left", Zero),
        "top", Zero)

resetObjectTransform(st) ==
  rotate(Write(Write(Write(Write(Write(Write(st, "scaleX", One), "scaleY", One),
                                 "skewX", Zero), "skewY", Zero),
                     "flipX", FALSE), "flipY", FALSE),
         Zero)

(***************************************************************************)
(* The arguments on which the transcendental curves stay rational.         *)
(***************************************************************************)
easeInExpoDom(t, d) == Eq(t, Zero) \/ IsInt(easeInExpoExponent(t, d))

easeOutExpoDom(t, d) == Eq(t, d) \/ IsInt(easeOutExpoExponent(t, d))

easeInOutExpoDom(t, d) ==
  Eq(t, Zero) \/ Eq(t, d) \/ IsInt(Mul(<<10, 1>>, Sub(Div(t, Div(d, Two)), One)))

\* whether the elastic curve returns before it calls normalize
easeInElasticEarly(t, d) == Eq(t, Zero) \/ Eq(Div(t, d), One)

easeInOutElasticEarly(t, d) == Eq(t, Zero) \/ Eq(Div(t, Div(d, Two)), Two)

easeInElasticDom(t, c, d) ==
  \/ easeInElasticEarly(t, d)
  \/ LET t1 == Div(t, d)
         n == normalize(c, c, elasticPeriod(d), DefaultOvershoot)
     IN  /\ IsInt(elasticExponent(t1))
         /\ SinDom(elasticAngle(n.s, n.p, Sub(t1, One), d))

easeOutElasticDom(t, c, d) ==
  \/ easeInElasticEarly(t, d)
  \/ LET t1 == Div(t, d)
         n == normalize(c, c, elasticPeriod(d), DefaultOvershoot)
     IN  /\ IsInt(easeOutElasticExponent(t1))
         /\ SinDom(elasticAngle(n.s, n.p, t1, d))

easeInOutElasticDom(t, c, d) ==
  \/ easeInOutElasticEarly(t, d)
  \/ LET t1 == Div(t, Div(d, Two))
         n == normalize(c, c, elasticPeriodInOut(d), DefaultOvershoot)
     IN  /\ IsInt(elasticExponent(t1))
         /\ SinDom(elasticAngle(n.s, n.p, Sub(t1, One), d))

(***************************************************************************)
(* Inputs of the easing calls.                                             *)
(***************************************************************************)
Starts == {<<n, 1>> : n \in -MaxStart..MaxStart}

Changes == {<<n, 1>> : n \in -MaxChange..MaxChange}

Durations == {<<n, 1>> : n \in 1..MaxDuration}

\* the sampled instants, as fractions t / d of the duration
TimeFractions ==
  {Zero, <<1, 10>>, <<1, 5>>, <<1, 4>>, <<1, 2>>, <<3, 5>>, <<3, 4>>, <<4, 5>>, One}

\* the optional fifth argument of the back curves
Overshoots == {DefaultOvershoot, One}

\* amplitudes and periods handed to normalize
Amplitudes == {<<n, 1>> : n \in 0..MaxChange}

Periods == {<<3, 10>>, <<9, 10>>, One}

NoNorm == [a |-> Zero, c |-> Zero, p |-> Zero, s |-> Zero]

\* a call: the function (fn = "none" while it has not run), its arguments
\* (t, b, c, d, s; na, c, np, s for normalize), its result r, and the
\* normalize call on its path (arguments na, c, np, s and result nr)
NoCall ==
  [kind |-> "none", fn |-> "none", t |-> Zero, b |-> Zero, c |-> Zero, d |-> Zero,
   s |-> Zero, r |-> Zero, normalized |-> FALSE, na |-> Zero, np |-> Zero,
   nr |-> NoNorm]

EaseArgs ==
  {[NoCall EXCEPT !.kind = "ease", !.t = Mul(f, d), !.b = b, !.c = c, !.d = d, !.s = s] :
     f \in TimeFractions, b \in Starts, c \in Changes, d \in Durations, s \in Overshoots}

NormalizeArgs ==
  {[NoCall EXCEPT !.kind = "normalize", !.na = a, !.c = c, !.np = p, !.s = s] :
     a \in Amplitudes, c \in Changes, p \in Periods, s \in {DefaultOvershoot, Zero}}

\* the call of an easing function that does not reach normalize returns r
Return(fn, r) ==
  /\ call.kind = "ease"
  /\ call.fn = "none"
  /\ call' = [call EXCEPT !.fn = fn, !.r = r]
  /\ UNCHANGED <<obj, snapshots, last, sized>>

\* the call of an elastic curve returns r: normalize(a = c, c, p, s) is on
\* its path unless the curve returns early
ReturnElastic(fn, p, early, r) ==
  /\ call.kind = "ease"
  /\ call.fn = "none"
  /\ call.s = DefaultOvershoot
  /\ call' = [call EXCEPT !.fn = fn, !.r = r,
                          !.normalized = ~early,
                          !.na = IF early THEN Zero ELSE call.c,
                          !.np = IF early THEN Zero ELSE p,
                          !.nr = IF early THEN NoNorm
                                 ELSE normalize(call.c, call.c, p, DefaultOvershoot)]
  /\ UNCHANGED <<obj, snapshots, last, sized>>

EaseOutCubic ==
  /\ call.s = DefaultOvershoot
  /\ Return("easeOutCubic", easeOutCubic(call.t, call.b, call.c, call.d))

EaseInOutCubic ==
  /\ call.s = DefaultOvershoot
  /\ Return("easeInOutCubic", easeInOutCubic(call.t, call.b, call.c, call.d))

EaseInQuart ==
  /\ call.s = DefaultOvershoot
  /\ Return("easeInQuart", easeInQuart(call.t, call.b, call.c, call.d))

EaseOutQuart ==
  /\ call.s = DefaultOvershoot
  /\ Return("easeOutQuart", easeOutQuart(call.t, call.b, call.c, call.d))

EaseInOutQuart ==
  /\ call.s = DefaultOvershoot
  /\ Return("easeInOutQuart", easeInOutQuart(call.t, call.b, call.c, call.d))

EaseInQuint ==
  /\ call.s = DefaultOvershoot
  /\ Return("easeInQuint", easeInQuint(call.t, call.b, call.c, call.d))

EaseOutQuint ==
  /\ call.s = DefaultOvershoot
  /\ Return("easeOutQuint", easeOutQuint(call.t, call.b, call.c, call.d))

EaseInOutQuint ==
  /\ call.s = DefaultOvershoot
  /\ Return("easeInOutQuint", easeInOutQuint(call.t, call.b, call.c, call.d))

EaseOutBounce ==
  /\ call.s = DefaultOvershoot
  /\ Return("easeOutBounce", easeOutBounce(call.t, call.b, call.c, call.d))

EaseInBounce ==
  /\ call.s = DefaultOvershoot
  /\ Return("easeInBounce", easeInBounce(call.t, call.b, call.c, call.d))

EaseInOutBounce ==
  /\ call.s = DefaultOvershoot
  /\ Return("easeInOutBounce", easeInOutBounce(call.t, call.b, call.c, call.d))

EaseInQuad ==
  /\ call.s = DefaultOvershoot
  /\ Return("easeInQuad", easeInQuad(call.t, call.b, call.c, call.d))

EaseOutQuad ==
  /\ call.s = DefaultOvershoot
  /\ Return("easeOutQuad", easeOutQuad(call.t, call.b, call.c, call.d))

EaseInOutQuad ==
  /\ call.s = DefaultOvershoot
  /\ Return("easeInOutQuad", easeInOutQuad(call.t, call.b, call.c, call.d))

EaseInCubic ==
  /\ call.s = DefaultOvershoot
  /\ Return("easeInCubic", easeInCubic(call.t, call.b, call.c, call.d))

EaseInSine ==
  /\ call.s = DefaultOvershoot
  /\ CosDom(easeInSineAngle(call.t, call.d))
  /\ Return("easeInSine", easeInSine(call.t, call.b, call.c, call.d))

EaseOutSine ==
  /\ call.s = DefaultOvershoot
  /\ SinDom(easeInSineAngle(call.t, call.d))
  /\ Return("easeOutSine", easeOutSine(call.t, call.b, call.c, call.d))

EaseInOutSine ==
  /\ call.s = DefaultOvershoot
  /\ CosDom(easeInOutSineAngle(call.t, call.d))
  /\ Return("easeInOutSine", easeInOutSine(call.t, call.b, call.c, call.d))

EaseInExpo ==
  /\ call.s = DefaultOvershoot
  /\ easeInExpoDom(call.t, call.d)
  /\ Return("easeInExpo", easeInExpo(call.t, call.b, call.c, call.d))

EaseOutExpo ==
  /\ call.s = DefaultOvershoot
  /\ easeOutExpoDom(call.t, call.d)
  /\ Return("easeOutExpo", easeOutExpo(call.t, call.b, call.c, call.d))

EaseInOutExpo ==
  /\ call.s = DefaultOvershoot
  /\ easeInOutExpoDom(call.t, call.d)
  /\ Return("easeInOutExpo", easeInOutExpo(call.t, call.b, call.c, call.d))

EaseInCirc ==
  /\ call.s = DefaultOvershoot
  /\ SqrtDom(easeInCircRadicand(call.t, call.d))
  /\ Return("easeInCirc", easeInCirc(call.t, call.b, call.c, call.d))

EaseOutCirc ==
  /\ call.s = DefaultOvershoot
  /\ SqrtDom(easeOutCircRadicand(call.t, call.d))
  /\ Return("easeOutCirc", easeOutCirc(call.t, call.b, call.c, call.d))

EaseInOutCirc ==
  /\ call.s = DefaultOvershoot
  /\ SqrtDom(easeInOutCircRadicand(Div(call.t, Div(call.d, Two))))
  /\ Return("easeInOutCirc", easeInOutCirc(call.t, call.b, call.c, call.d))

EaseInBack ==
  /\ call.s \in Overshoots
  /\ Return("easeInBack", easeInBack(call.t, call.b, call.c, call.d, call.s))

EaseOutBack ==
  /\ call.s \in Overshoots
  /\ Return("easeOutBack", easeOutBack(call.t, call.b, call.c, call.d, call.s))

EaseInOutBack ==
  /\ call.s \in Overshoots
  /\ Return("easeInOutBack", easeInOutBack(call.t, call.b, call.c, call.d, call.s))

EaseInElastic ==
  /\ easeInElasticDom(call.t, call.c, call.d)
  /\ ReturnElastic("easeInElastic", elasticPeriod(call.d), easeInElasticEarly(call.t, call.d),
                   easeInElastic(call.t, call.b, call.c, call.d))

EaseOutElastic ==
  /\ easeOutElasticDom(call.t, call.c, call.d)
  /\ ReturnElastic("easeOutElastic", elasticPeriod(call.d), easeInElasticEarly(call.t, call.d),
                   easeOutElastic(call.t, call.b, call.c, call.d))

EaseInOutElastic ==
  /\ easeInOutElasticDom(call.t, call.c, call.d)
  /\ ReturnElastic("easeInOutElastic", elasticPeriodInOut(call.d), easeInOutElasticEarly(call.t, call.d),
                   easeInOutElastic(call.t, call.b, call.c, call.d))

\* normalize on its own, on arbitrary amplitudes
Normalize ==
  /\ call.kind = "normalize"
  /\ call.fn = "none"
  /\ normalizeDom(call.na, call.c)
  /\ call' = [call EXCEPT !.fn = "normalize", !.normalized = TRUE,
                          !.nr = normalize(call.na, call.c, call.np, call.s)]
  /\ UNCHANGED <<obj, snapshots, last, sized>>

(***************************************************************************)
(* sizeAfterTransform as a pure function: the arguments are drawn first,   *)
(* the call then returns.                                                  *)
(***************************************************************************)
Scales == {<<n, 1>> : n \in -MaxScale..MaxScale}

Skews == {<<-45, 1>>, Zero, <<45, 1>>}

SizeArgs ==
  {[width |-> w, height |-> h, done |-> FALSE, r |-> Point(Zero, Zero),
    options |-> [scaleX |-> sx, scaleY |-> sy, skewX |-> kx, skewY |-> ky,
                 flipX |-> fx, flipY |-> FALSE]] :
     w \in {<<100, 1>>, <<3, 1>>, <<-3, 1>>}, h \in {<<50, 1>>, Zero},
     sx \in Scales, sy \in Scales \ {Zero}, kx \in Skews, ky \in {Zero, <<45, 1>>},
     fx \in BOOLEAN}

NoSize ==
  [width |-> Zero, height |-> Zero, done |-> FALSE, r |-> Point(Zero, Zero),
   options |-> [scaleX |-> One, scaleY |-> One, skewX |-> Zero, skewY |-> Zero,
                flipX |-> FALSE, flipY |-> FALSE]]

NoObject ==
  [scaleX |-> One, scaleY |-> One, skewX |-> Zero, skewY |-> Zero, angle |-> Zero,
   flipX |-> FALSE, flipY |-> FALSE, left |-> Zero, top |-> Zero,
   width |-> Zero, height |-> Zero, originX |-> "center", originY |-> "center"]

\* the last call on the object: the operation, the transform it was given
\* (arg), the transform handed on to applyTransformToObject (final), the
\* object before the call, the fields written in order, the same for the
\* call before it, and the number of calls so far
NoLast ==
  [op |-> "none", arg |-> iMatrix, final |-> iMatrix, before |-> NoObject, writes |-> <<>>,
   prevOp |-> "none", prevArg |-> iMatrix, prevBefore |-> NoObject, calls |-> 0]

SizeAfterTransform ==
  /\ ~sized.done
  /\ sized' = [sized EXCEPT !.done = TRUE,
                            !.r = sizeAfterTransform(sized.width, sized.height,
                                                     sized.options)]
  /\ UNCHANGED <<call, obj, snapshots, last>>

InitSize ==
  /\ sized \in SizeArgs
  /\ call = NoCall
  /\ obj = NoObject
  /\ snapshots = <<>>
  /\ last = NoLast

NextSize == SizeAfterTransform

SpecSize == InitSize /\ [][NextSize]_vars

(***************************************************************************)
(* The object and the calls made on it.                                    *)
(***************************************************************************)
\* the objects the calls start from: scaled, skewed along x and mirrored,
\* skewed along y and mirrored both ways; upright or turned by 90 degrees;
\* positioned by the top left corner or by the centre
Objects ==
  {[scaleX |-> k[1], scaleY |-> k[2], skewX |-> k[3], skewY |-> k[4], angle |-> a,
    flipX |-> k[5], flipY |-> k[6], left |-> One, top |-> <<-2, 1>>,
    width |-> <<4, 1>>, height |-> Two, originX |-> g[1], originY |-> g[2]] :
     k \in {<<Two, One, Zero, Zero, FALSE, FALSE>>,
            <<One, Two, <<45, 1>>, Zero, TRUE, FALSE>>,
            <<One, One, Zero, <<45, 1>>, TRUE, TRUE>>},
     a \in {Zero, <<90, 1>>},
     g \in {<<"left", "top">>, <<"center", "center">>}}

\* the transforms of the calls: a scaling by 2 with a shift, a quarter turn
\* with a shift, a mirror image, a stretch
Transforms ==
  {<<Two, Zero, Zero, Two, One, Zero>>,
   <<Zero, One, <<-1, 1>>, Zero, Zero, <<3, 1>>>>,
   <<<<-1, 1>>, Zero, Zero, One, Zero, Zero>>,
   <<One, Zero, Zero, Two, Zero, <<-1, 1>>>>}

\* the fields of a kept record after the target became o: a record that is
\* the target itself shows the target's fields
Seen(rec, o) ==
  IF rec.alias THEN [f \in DOMAIN rec |-> IF f \in DOMAIN o THEN o[f] ELSE rec[f]]
  ELSE rec

\* the call op returns: the object is st.o, kept are the records the caller
\* holds, each with the target as it was when the record was taken
Called(op, arg, final, st, kept) ==
  /\ obj' = st.o
  /\ snapshots' = [i \in DOMAIN kept |-> [kept[i] EXCEPT !.rec = Seen(kept[i].rec, st.o)]]
  /\ last' = [op |-> op, arg |-> arg, final |-> final, before |-> obj, writes |-> st.w,
              prevOp |-> last.op, prevArg |-> last.arg, prevBefore |-> last.before,
              calls |-> last.calls + 1]

Start == [o |-> obj, w |-> <<>>]

ApplyTransformToObject ==
  /\ last.calls < MaxCalls
  /\ \E transform \in Transforms :
       /\ qrDecomposeDom(transform)
       /\ Called("apply", transform, transform, applyTransformToObject(Start, transform),
                 snapshots)
  /\ UNCHANGED <<call, sized>>

\* final is the transform the call hands on to applyTransformToObject
RemoveTransformFromObject ==
  /\ last.calls < MaxCalls
  /\ \E transform \in Transforms :
       \E final \in {multiplyTransformMatrices(invertTransform(transform),
                                               calcOwnMatrix(obj), FALSE)} :
         /\ qrDecomposeDom(final)
         /\ Called("remove", transform, final, removeTransformFromObject(Start, transform),
                   snapshots)
  /\ UNCHANGED <<call, sized>>

AddTransformToObject ==
  /\ last.calls < MaxCalls
  /\ \E transform \in Transforms :
       \E final \in {multiplyTransformMatrices(transform, calcOwnMatrix(obj), FALSE)} :
         /\ qrDecomposeDom(final)
         /\ Called("add", transform, final, addTransformToObject(Start, transform), snapshots)
  /\ UNCHANGED <<call, sized>>

ResetObjectTransform ==
  /\ last.calls < MaxCalls
  /\ Called("reset", iMatrix, iMatrix, resetObjectTransform(Start), snapshots)
  /\ UNCHANGED <<call, sized>>

\* the caller keeps the record saveObjectTransform returns
SaveObjectTransform ==
  /\ last.calls < MaxCalls
  /\ Len(snapshots) < MaxSnapshots
  /\ Called("save", iMatrix, iMatrix, Start,
            Append(snapshots, [rec |-> saveObjectTransform(obj), target |-> obj]))
  /\ UNCHANGED <<call, sized>>

Init ==
  /\ obj \in Objects
  /\ snapshots = <<>>
  /\ last = [NoLast EXCEPT !.before = obj]
  /\ call = NoCall
  /\ sized = NoSize

Next ==
  \/ ApplyTransformToObject
  \/ RemoveTransformFromObject
  \/ AddTransformToObject
  \/ ResetObjectTransform
  \/ SaveObjectTransform

Spec == Init /\ [][Next]_vars

(***************************************************************************)
(* The easing functions as pure functions: the arguments are drawn first,  *)
(* one function is then called on them.                                    *)
(***************************************************************************)
InitEase ==
  /\ call \in EaseArgs \cup NormalizeArgs
  /\ obj = NoObject
  /\ snapshots = <<>>
  /\ last = NoLast
  /\ sized = NoSize

NextEase ==
  \/ EaseOutCubic
  \/ EaseInOutCubic
  \/ EaseInQuart
  \/ EaseOutQuart
  \/ EaseInOutQuart
  \/ EaseInQuint
  \/ EaseOutQuint
  \/ EaseInOutQuint
  \/ EaseOutBounce
  \/ EaseInBounce
  \/ EaseInOutBounce
  \/ EaseInQuad
  \/ EaseOutQuad
  \/ EaseInOutQuad
  \/ EaseInCubic
  \/ EaseInSine
  \/ EaseOutSine
  \/ EaseInOutSine
  \/ EaseInExpo
  \/ EaseOutExpo
  \/ EaseInOutExpo
  \/ EaseInCirc
  \/ EaseOutCirc
  \/ EaseInOutCirc
  \/ EaseInBack
  \/ EaseOutBack
  \/ EaseInOutBack
  \/ EaseInElastic
  \/ EaseOutElastic
  \/ EaseInOutElastic
  \/ Normalize

SpecEase == InitEase /\ [][NextEase]_vars

(***************************************************************************)
(* Properties of the easing functions, under SpecEase.                     *)
(***************************************************************************)
Returned == call.kind = "ease" /\ call.fn # "none"

InOutFunctions ==
  {"easeInOutQuad", "easeInOutCubic", "easeInOutQuart", "easeInOutQuint", "easeInOutSine",
   "easeInOutExpo", "easeInOutCirc", "easeInOutElastic", "easeInOutBack", "easeInOutBounce"}

\* the functions whose formula misses a boundary
BoundarySlips == {"easeOutCubic", "easeOutQuint", "easeOutExpo"}

AtBoundary ==
  /\ (Eq(call.t, Zero) => call.r = call.b)
  /\ (Eq(call.t, call.d) => call.r = Add(call.b, call.c))

\* C1: every easing function returns b at t = 0 and b + c at t = d, for
\* every start b, change c and duration d > 0.
BoundaryConditions == Returned => AtBoundary

\* the boundary conditions of the functions other than easeOutCubic,
\* easeOutQuint and easeOutExpo
BoundaryConditionsElsewhere == (Returned /\ call.fn \notin BoundarySlips) => AtBoundary

\* a call that shows a missed boundary: easeOutExpo(0, 0, 1, 1) returns -2
BoundaryMissed ==
  /\ call.fn = "easeOutExpo" /\ call.t = Zero /\ call.b = Zero /\ call.c = One
  /\ call.d = One /\ call.r = <<-2, 1>>

\* what the first-half branch of the in-out function of the call gives at
\* the midpoint t = d / 2, where t / (d / 2) = 1
FirstHalfAtMidpoint ==
  CASE call.fn = "easeInOutQuad" -> easeInOutQuadFirst(One, call.b, call.c)
    [] call.fn = "easeInOutCubic" -> easeInOutCubicFirst(One, call.b, call.c)
    [] call.fn = "easeInOutQuart" -> easeInOutQuartFirst(One, call.b, call.c)
    [] call.fn = "easeInOutQuint" -> easeInOutQuintFirst(One, call.b, call.c)
    [] call.fn = "easeInOutSine" -> easeInOutSine(call.t, call.b, call.c, call.d)
    [] call.fn = "easeInOutExpo" -> easeInOutExpoFirst(One, call.b, call.c)
    [] call.fn = "easeInOutCirc" -> easeInOutCircFirst(One, call.b, call.c)
    [] call.fn = "easeInOutElastic" -> easeInOutElasticFirst(One, call.b, call.d, call.nr)
    [] call.fn = "easeInOutBack" -> easeInOutBackFirst(One, call.b, call.c, call.s)
    [] call.fn = "easeInOutBounce" -> easeInOutBounceFirst(call.t, call.b, call.c, call.d)

AtMidpoint == Returned /\ call.fn \in InOutFunctions /\ call.t = Div(call.d, Two)

Half == Add(call.b, Div(call.c, Two))

\* C2: every in-out function is continuous at t = d / 2: the first-half
\* branch at the midpoint and the value returned at t = d / 2 are both
\* b + c / 2.
InOutContinuous == AtMidpoint => (FirstHalfAtMidpoint = Half /\ call.r = Half)

\* the continuity of the in-out functions other than easeInOutExpo
InOutContinuousElsewhere ==
  (AtMidpoint /\ call.fn # "easeInOutExpo") => (FirstHalfAtMidpoint = Half /\ call.r = Half)

\* a call that shows the jump: easeInOutExpo(1/2, 0, 1, 1) returns -3/2
MidpointJump ==
  /\ call.fn = "easeInOutExpo" /\ call.t = <<1, 2>> /\ call.b = Zero /\ call.c = One
  /\ call.d = One /\ call.r = <<-3, 2>> /\ FirstHalfAtMidpoint = <<1, 2>>

UnitCall(t) == call.t = t /\ call.b = Zero /\ call.c = One /\ call.d = One

\* C6: easeInQuad returns c (t/d)^2 + b, easeOutQuad -c (t/d) (t/d - 2) + b
\* and, for t < d / 2, easeInOutQuad (c/2) (2t/d)^2 + b; easeInQuad(1/2, 0, 1, 1)
\* is 1/4, easeOutQuad(1/2, 0, 1, 1) is 3/4, easeInOutQuad(1/4, 0, 1, 1) is 1/8.
QuadClosedForms ==
  /\ call.fn = "easeInQuad" =>
       /\ call.r = Add(Mul(call.c, Pow(Div(call.t, call.d), 2)), call.b)
       /\ UnitCall(<<1, 2>>) => call.r = <<1, 4>>
  /\ call.fn = "easeOutQuad" =>
       /\ call.r = Add(Mul(Neg(call.c),
                           Mul(Div(call.t, call.d), Sub(Div(call.t, call.d), Two))),
                       call.b)
       /\ UnitCall(<<1, 2>>) => call.r = <<3, 4>>
  /\ (call.fn = "easeInOutQuad" /\ Lt(call.t, Div(call.d, Two))) =>
       /\ call.r = Add(Mul(Div(call.c, Two), Pow(Div(Mul(Two, call.t), call.d), 2)),
                       call.b)
       /\ UnitCall(<<1, 4>>) => call.r = <<1, 8>>

\* the three calls of C6 have returned the three values
QuadInExample == call.fn = "easeInQuad" /\ UnitCall(<<1, 2>>) /\ call.r = <<1, 4>>
QuadOutExample == call.fn = "easeOutQuad" /\ UnitCall(<<1, 2>>) /\ call.r = <<3, 4>>
QuadInOutExample == call.fn = "easeInOutQuad" /\ UnitCall(<<1, 4>>) /\ call.r = <<1, 8>>

\* the result of normalize on the branch a < |c|
SmallAmplitude(c, p) == [a |-> c, c |-> c, p |-> p, s |-> Div(p, <<4, 1>>)]

\* the elastic curve of the call, computed from SmallAmplitude
ElasticOnSmallAmplitude(n) ==
  CASE call.fn = "easeInElastic" ->
         Add(Neg(elastic(n.a, n.s, n.p, Div(call.t, call.d), call.d)), call.b)
    [] call.fn = "easeOutElastic" ->
         Add(Add(Mul(Mul(n.a, Pow2(easeOutElasticExponent(Div(call.t, call.d)))),
                     Sin(elasticAngle(n.s, n.p, Div(call.t, call.d), call.d))),
                 n.c),
             call.b)
    [] call.fn = "easeInOutElastic" ->
         IF Lt(call.t, Div(call.d, Two))
         THEN easeInOutElasticFirst(Div(call.t, Div(call.d, Two)), call.b, call.d, n)
         ELSE easeInOutElasticSecond(Div(call.t, Div(call.d, Two)), call.b, call.d, n)

\* C8: normalize(a, c, p, s) with a < |c| returns a' = c and s' = p / 4,
\* c and p as given, whatever s was; an elastic curve with c < 0 hands
\* a = c to normalize, takes that branch and computes its value from it.
NormalizeSmallAmplitude ==
  /\ (call.normalized /\ Lt(call.na, Abs(call.c))) =>
       call.nr = SmallAmplitude(call.c, call.np)
  /\ (Returned /\ call.normalized /\ Lt(call.c, Zero)) =>
       /\ call.na = call.c
       /\ Lt(call.na, Abs(call.c))
       /\ call.r = ElasticOnSmallAmplitude(SmallAmplitude(call.c, call.np))

\* normalize has returned on an amplitude below |c| that is not c itself,
\* with an incoming s of 0
NormalizeBelow ==
  /\ call.fn = "normalize" /\ Lt(call.na, Abs(call.c)) /\ call.na # call.c
  /\ call.s = Zero /\ call.nr.a = call.c /\ call.nr.s # Zero

\* an elastic curve with a negative change has gone through normalize
ElasticNegativeChange ==
  Returned /\ call.fn = "easeInElastic" /\ call.normalized /\ Lt(call.c, Zero)


(***************************************************************************)
(* Properties of sizeAfterTransform, under SpecSize.                       *)
(***************************************************************************)
\* the corners (+-width/2, +-height/2) under the scale and skew of the call
TransformedCorners ==
  {transformPoint(Point(Mul(i, Div(sized.width, Two)), Mul(j, Div(sized.height, Two))),
                  calcDimensionsMatrix(sized.options), TRUE) :
     i \in {<<-1, 1>>, One}, j \in {<<-1, 1>>, One}}

\* the corners are symmetric about the origin, so is their bounding box:
\* it has sides w and h when no corner lies beyond +-w/2 and +-h/2 and
\* some corner lies on each side
BoundingBoxSides(w, h) ==
  /\ \A p \in TransformedCorners : ~Lt(Div(w, Two), Abs(p[1])) /\ ~Lt(Div(h, Two), Abs(p[2]))
  /\ \E p \in TransformedCorners : p[1] = Div(w, Two)
  /\ \E p \in TransformedCorners : p[2] = Div(h, Two)

SizeExampleArgs ==
  /\ sized.width = <<100, 1>> /\ sized.height = <<50, 1>>
  /\ sized.options.scaleX = Two /\ sized.options.scaleY = One
  /\ sized.options.skewX = Zero /\ sized.options.skewY = Zero
  /\ ~sized.options.flipX /\ ~sized.options.flipY

\* C7: sizeAfterTransform returns the sides of the bounding box of the four
\* corners (+-width/2, +-height/2) under the scale and skew of the options,
\* both are non-negative whatever the scales, and the call on 100, 50 with
\* scaleX 2, scaleY 1 and no skew returns (200, 50).
SizeIsBoundingBox ==
  sized.done =>
    /\ BoundingBoxSides(sized.r[1], sized.r[2])
    /\ ~Lt(sized.r[1], Zero) /\ ~Lt(sized.r[2], Zero)
    /\ SizeExampleArgs => sized.r = Point(<<200, 1>>, <<50, 1>>)

\* the call of the example has returned (200, 50)
SizeExample == sized.done /\ SizeExampleArgs /\ sized.r = Point(<<200, 1>>, <<50, 1>>)

\* a call with negative scales, both skews and a negative width has returned
SizeNegativeScale ==
  /\ sized.done /\ Lt(sized.options.scaleX, Zero) /\ Lt(sized.options.scaleY, Zero)
  /\ sized.options.skewX # Zero /\ sized.options.skewY # Zero
  /\ Lt(sized.width, Zero) /\ Lt(Zero, sized.r[1]) /\ Lt(Zero, sized.r[2])

(***************************************************************************)
(* Properties of the calls on an object, under Spec.                       *)
(***************************************************************************)
Applying == last.op \in {"apply", "add", "remove"}

\* C3: removeTransformFromObject(O, M) followed by addTransformToObject(O, M)
\* leaves O with the own matrix it had before the two calls.
RoundTrip ==
  (last.op = "add" /\ last.prevOp = "remove" /\ last.arg = last.prevArg) =>
    calcOwnMatrix(obj) = calcOwnMatrix(last.prevBefore)

\* a scaling has been removed from a mirrored, turned object and added
\* again: the fields differ from what they were, the own matrix does not
RoundTripDone ==
  /\ last.op = "add" /\ last.prevOp = "remove" /\ last.arg = last.prevArg
  /\ last.arg[1] = Two /\ last.prevBefore.flipX /\ last.prevBefore.angle # Zero
  /\ obj # last.prevBefore
  /\ calcOwnMatrix(obj) = calcOwnMatrix(last.prevBefore)

\* C4: resetObjectTransform leaves left and top as they were and writes
\* neither; after it scaleX = scaleY = 1, skewX = skewY = 0, flipX = flipY =
\* false and angle = 0.
ResetKeepsPosition ==
  last.op = "reset" =>
    /\ obj.left = last.before.left /\ obj.top = last.before.top
    /\ \A i \in DOMAIN last.writes : last.writes[i] \notin {"left", "top"}
    /\ obj.scaleX = One /\ obj.scaleY = One /\ obj.skewX = Zero /\ obj.skewY = Zero
    /\ ~obj.flipX /\ ~obj.flipY /\ obj.angle = Zero

\* an object moved, turned, skewed and mirrored has been reset
ResetDone ==
  /\ last.op = "reset" /\ last.prevOp = "add"
  /\ last.before.angle # Zero /\ last.before.scaleX # One
  /\ obj.left = last.before.left /\ obj.left # Zero /\ obj.angle = Zero

SavedFields == {"scaleX", "scaleY", "skewX", "skewY", "angle", "left", "top", "flipX", "flipY"}

\* C5: saveObjectTransform changes no field of the target and returns a
\* record of scaleX, scaleY, skewX, skewY, angle, left, top, flipX and flipY
\* as they were at the call; whatever is done to the target afterwards, the
\* record stays as it was.
SnapshotIsPure ==
  /\ last.op = "save" => (obj = last.before /\ last.writes = <<>>)
  /\ \A i \in DOMAIN snapshots :
       /\ DOMAIN snapshots[i].rec \ {"alias"} = SavedFields
       /\ \A f \in SavedFields : snapshots[i].rec[f] = snapshots[i].target[f]

\* the target of a kept record has been changed since the record was taken
SnapshotOutlived ==
  /\ Len(snapshots) = 1 /\ last.op = "remove" /\ last.prevOp = "save"
  /\ obj.scaleX # snapshots[1].target.scaleX /\ obj.left # snapshots[1].target.left
  /\ snapshots[1].rec.scaleX = snapshots[1].target.scaleX

\* C9: after applyTransformToObject, addTransformToObject or
\* removeTransformFromObject flipX and flipY are false: the two flags are
\* written first, and no field of the decomposition writes them again.
FlipsCleared ==
  Applying =>
    /\ ~obj.flipX /\ ~obj.flipY
    /\ SubSeq(last.writes, 1, 2) = <<"flipX", "flipY">>
    /\ \A i \in 3..Len(last.writes) : last.writes[i] \notin {"flipX", "flipY"}
    /\ DOMAIN qrDecompose(last.final) \cap {"flipX", "flipY"} = {}

\* a transform has been removed from a mirrored object
FlipsLost == last.op = "remove" /\ last.before.flipX /\ ~obj.flipX

\* a transform has been applied to an object mirrored both ways
BothFlipsLost ==
  last.op = "apply" /\ last.before.flipX /\ last.before.flipY /\ ~obj.flipX /\ ~obj.flipY

\* C10: applyTransformToObject writes the flips, then angle, skewX and
\* skewY, then scaleX and scaleY, and last left and top, which nothing else
\* writes; the centre of the object ends at (translateX, translateY).
WriteOrder ==
  Applying =>
    /\ last.writes = <<"flipX", "flipY", "angle", "skewX", "skewY", "scaleX", "scaleY",
                       "left", "top">>
    /\ getRelativeCenterPoint(obj) = Point(last.final[5], last.final[6])

\* a transform that scales and shifts has been applied to an object
\* positioned by its top left corner: left and top are not the centre
Repositioned ==
  /\ last.op = "apply" /\ last.arg[1] = Two /\ obj.originX = "left"
  /\ obj.scaleX # last.before.scaleX
  /\ Point(obj.left, obj.top) # Point(last.final[5], last.final[6])
  /\ getRelativeCenterPoint(obj) = Point(last.final[5], last.final[6])

====
